---------------------------- MODULE Spec2Model ----------------------------
(***************************************************************************)
(* laravel2erd: static analysis of Laravel model files into an ER diagram. *)
(*                                                                         *)
(* Text is modelled by the lexemes the code's patterns read.  A model      *)
(* name is a sequence of characters (pluralize slices it); a source unit   *)
(* is a record of what each includes() test and each regular expression    *)
(* of parser.js and generator.js finds in it; a relationship argument is a *)
(* sequence of lexemes; rendered text is a sequence of lines, each the     *)
(* sequence of the pieces of its template literal.  Names that are only    *)
(* compared are strings.                                                   *)
(***************************************************************************)
EXTENDS Naturals, Sequences, FiniteSets, TLC

VARIABLES
    \* ---- one call of parseModel / parseRelationships (parser.js) ----
    modelName,      \* parseModel's modelName, a sequence of characters
    content,        \* parseModel's content, a source unit
    entity,         \* what parseModel returned (Null: null), Unparsed before
    rels,           \* what parseRelationships returned
    phase,          \* "input" | "parsed" | "related" | "off"
    \* ---- one run of generate / generateFromSchema (generator.js) ----
    impl,           \* which generate runs: "generator" | "part_001" | "schema"
    modelFiles,     \* the glob result: the files of the models directory
    options,        \* includeRelations, title
    schema,         \* generateFromSchema's schema argument
    i,              \* position of the for-of loop in modelFiles
    entities,       \* const entities = []
    relationships,  \* const relationships = []
    errors,         \* const errors = []
    pc,             \* where the run is
    thrown,         \* message of the Error the run rejected with, "" if none
    returned,       \* the value the run resolved with, NoValue before
    outputDir,      \* index.html and diagram.mmd of options.outputDir
    \* ---- the viewer's page in the browser (script of createViewer) ----
    zoom,           \* let zoom, in tenths
    transform,      \* diagram.style.transform: << >> unset, << scale >> set
    transformOrigin,\* diagram.style.transformOrigin, "" unset
    clicked         \* the button of the last click, "none" before any

vars == << modelName, content, entity, rels, phase, impl, modelFiles, options,
           schema, i, entities, relationships, errors, pc, thrown, returned,
           outputDir, zoom, transform, transformOrigin, clicked >>

parseVars == << modelName, content, entity, rels, phase >>
runVars == << impl, modelFiles, options, schema, i, entities, relationships,
              errors, pc, thrown, returned, outputDir >>
viewVars == << zoom, transform, transformOrigin, clicked >>

(***************************************************************************)
(* Bounds of the model.                                                    *)
(***************************************************************************)
MaxFillable == 2    \* quoted strings in a $fillable literal
MaxCasts == 1       \* pairs in a $casts literal
MaxWord == 2        \* characters of an enumerated model name
MaxTokens == 3      \* function headers and relationship calls in a unit
MaxAccessors == 2   \* accessors of a unit that is accessors only
MaxFiles == 3       \* files the glob returns
MaxSchemaRels == 2  \* relationships of a schema literal
MaxSchemaEntities == 2  \* entities of a schema literal
MaxZoom == 60       \* tenths above which zoom-in is not clicked any more

SeqsUpTo(S, n) == UNION {[1..k -> S] : k \in 0..n}

Min(S) == CHOOSE x \in S : \A y \in S : x <= y
Max(S) == CHOOSE x \in S : \A y \in S : y <= x

\* A JavaScript string built from its pieces.
RECURSIVE Str(_)
Str(w) == IF w = <<>> THEN "" ELSE Head(w) \o Str(Tail(w))

\* An absent value << >> (a null match, an undefined property) or << v >>.
Maybe(values) == {<< >>} \cup {<< v >> : v \in values}

\* JavaScript's null, and the values of variables not yet assigned.
Null == [null |-> TRUE]
Unparsed == [unparsed |-> TRUE]
NoValue == [novalue |-> TRUE]

(***************************************************************************)
(* parser.js: pluralize, extractTableName                                  *)
(***************************************************************************)
UpperCase == << "B", "C", "K", "S", "U" >>
LowerCase == << "b", "c", "k", "s", "u" >>

\* String.prototype.toLowerCase, on the letters the model names use.
toLowerCase(word) ==
    [k \in DOMAIN word |->
        IF \E u \in DOMAIN UpperCase : UpperCase[u] = word[k]
        THEN LowerCase[CHOOSE u \in DOMAIN UpperCase : UpperCase[u] = word[k]]
        ELSE word[k]]

\* String.prototype.endsWith.
EndsWithSeq(word, suffix) ==
    /\ Len(word) >= Len(suffix)
    /\ SubSeq(word, Len(word) - Len(suffix) + 1, Len(word)) = suffix

endsWith(word, c) == EndsWithSeq(word, << c >>)

pluralize(word) ==
    IF endsWith(word, "y")
    THEN SubSeq(word, 1, Len(word) - 1) \o << "i", "e", "s" >>
    ELSE IF endsWith(word, "s")
         THEN word
         ELSE Append(word, "s")

\* content.tableMatch is the result of content.match(/protected\s+\$table.../):
\* << >> for null, << literal >> for a match whose group 1 is the literal.
extractTableName(c, name) ==
    IF c.tableMatch # << >>
    THEN c.tableMatch[1]
    ELSE Str(pluralize(toLowerCase(name)))

(***************************************************************************)
(* parser.js: parseModel                                                   *)
(***************************************************************************)
\* entity.attributes = attributes.map(attr => ({name, type: 'string'}))
fillableAttributes(c) ==
    IF c.fillableMatch # << >>
    THEN [k \in DOMAIN c.fillableMatch[1] |->
            [name |-> c.fillableMatch[1][k], type |-> "string"]]
    ELSE << >>

\* The body of castPairs.forEach: find the first attribute of that name and
\* set its type to the cast string, or push a new attribute.
castPair(attributes, pair) ==
    LET attr == pair[1]
        type == pair[2]
        found == {k \in DOMAIN attributes : attributes[k].name = attr}
    IN  IF found # {}
        THEN [attributes EXCEPT ![Min(found)].type = type]
        ELSE Append(attributes, [name |-> attr, type |-> type])

RECURSIVE castPairsForEach(_, _)
castPairsForEach(attributes, castPairs) ==
    IF castPairs = << >>
    THEN attributes
    ELSE castPairsForEach(castPair(attributes, Head(castPairs)), Tail(castPairs))

castAttributes(attributes, c) ==
    IF c.castsMatch # << >>
    THEN castPairsForEach(attributes, c.castsMatch[1])
    ELSE attributes

\* if (!content.includes('public $timestamps = false')) push both timestamps
timestampAttributes(attributes, c) ==
    IF ~c.timestampsOff
    THEN attributes \o << [name |-> "created_at", type |-> "timestamp"],
                          [name |-> "updated_at", type |-> "timestamp"] >>
    ELSE attributes

\* The id pushed at the end instead of unshifted to the front.
idAttributePushed(attributes, c) ==
    IF ~(\E k \in DOMAIN attributes : attributes[k].name = "id")
       /\ ~c.primaryKey
    THEN Append(attributes, [name |-> "id", type |-> "bigint", primary |-> TRUE])
    ELSE attributes

\* if no attribute is named id and the unit has no 'protected $primaryKey'
idAttribute(attributes, c) ==
    IF ~(\E k \in DOMAIN attributes : attributes[k].name = "id")
       /\ ~c.primaryKey
    THEN << [name |-> "id", type |-> "bigint", primary |-> TRUE] >> \o attributes
    ELSE attributes

parseModel(name, c) ==
    IF c.abstractClass \/ ~c.hasClass
    THEN Null
    ELSE [name |-> Str(name),
          attributes |->
              idAttribute(
                  timestampAttributes(
                      castAttributes(fillableAttributes(c), c), c), c),
          tableName |-> extractTableName(c, name)]

(***************************************************************************)
(* parser.js: parseRelationships                                           *)
(*                                                                         *)
(* content.body is the unit's text as the relationship patterns see it:    *)
(* the sequence of its function headers [kind "function", name, zeroArg]   *)
(* (zeroArg: the header is `function name() {`) and of its calls           *)
(* [kind "call", method, arg] for `$this->method(arg`, where method is the *)
(* method name in words (belongsToMany is << "belongsTo", "Many" >>) and   *)
(* arg the lexemes of the first argument up to `)` or `,`.                 *)
(***************************************************************************)
relationTypes ==
    << [method |-> << "hasOne" >>, type |-> "1-1"],
       [method |-> << "hasMany" >>, type |-> "1-N"],
       [method |-> << "belongsTo" >>, type |-> "N-1"],
       [method |-> << "belongsTo", "Many" >>, type |-> "N-N"] >>

\* `function\s+([a-zA-Z0-9_]+)\s*\(\s*\)\s*{` matches the token at k.
headerAt(body, k) == body[k].kind = "function" /\ body[k].zeroArg

\* A call whose method name only starts with the pattern's method.
callAtPrefix(body, k, method) ==
    /\ body[k].kind = "call"
    /\ Len(body[k].method) >= Len(method)
    /\ SubSeq(body[k].method, 1, Len(method)) = method
    /\ body[k].arg # << >>

\* `\$this->${method}\s*\(\s*([^),]+)` matches the token at k: the method
\* name is followed by the opening parenthesis, and the argument is not empty.
callAt(body, k, method) ==
    /\ body[k].kind = "call"
    /\ body[k].method = method
    /\ body[k].arg # << >>

\* One regex.exec(content) with lastIndex at token `from`: the leftmost
\* header from which the pattern matches, and (the quantifier is lazy) the
\* first call of the method after it.  << >> for null.
exec(body, method, from) ==
    LET headers == {h \in from..Len(body) :
                       /\ headerAt(body, h)
                       /\ \E k \in (h + 1)..Len(body) : callAt(body, k, method)}
    IN  IF headers = {}
        THEN << >>
        ELSE LET h == Min(headers)
             IN  << h, Min({k \in (h + 1)..Len(body) : callAt(body, k, method)}) >>

\* The grave accent, which a TLA+ string cannot hold.
GraveAccent == "grave-accent"

\* match[2].trim().replace(/::class|[quotes]/g, '').split(backslash).pop()
relatedModelOf(arg) ==
    LET replaced == SelectSeq(arg, LAMBDA t :
                        t \notin {"::class", "'", "\"", GraveAccent})
        seps == {k \in DOMAIN replaced : replaced[k] = "\\"}
    IN  Str(IF seps = {}
            THEN replaced
            ELSE SubSeq(replaced, Max(seps) + 1, Len(replaced)))

\* The while loop over regex.exec for one relation type.
RECURSIVE whileExec(_, _, _, _)
whileExec(name, body, relation, from) ==
    LET match == exec(body, relation.method, from)
    IN  IF match = << >>
        THEN << >>
        ELSE LET relationName == body[match[1]].name
                 relatedModel == relatedModelOf(body[match[2]].arg)
                 rest == whileExec(name, body, relation, match[2] + 1)
             IN  IF relatedModel = ""
                 THEN rest
                 ELSE << [from |-> Str(name), to |-> relatedModel,
                          name |-> relationName, type |-> relation.type] >>
                      \o rest

RECURSIVE relationTypesForEach(_, _, _)
relationTypesForEach(name, body, k) ==
    IF k > Len(relationTypes)
    THEN << >>
    ELSE whileExec(name, body, relationTypes[k], 1)
         \o relationTypesForEach(name, body, k + 1)

\* The entities argument is never read.
parseRelationships(name, c, ents) == relationTypesForEach(name, c.body, 1)

(***************************************************************************)
(* renderer: renderERD, createViewer                                       *)
(***************************************************************************)
IsPrimary(a) == "primary" \in DOMAIN a /\ a.primary
IsNullable(a) == "nullable" \in DOMAIN a /\ a.nullable

\* `        ${typeDisplay} ${attr.name}${flagsDisplay}\n`
attributeLine(attr) ==
    LET typeDisplay == IF "type" \in DOMAIN attr THEN attr.type ELSE "string"
        flagsDisplay == (IF IsPrimary(attr) THEN " PK" ELSE "")
                        \o (IF IsNullable(attr) THEN " NULL" ELSE "")
    IN  << "        ", typeDisplay, " ", attr.name, flagsDisplay, "\n" >>

entityBlock(e) ==
    << << "    ", e.name, " {\n" >> >>
    \o [k \in DOMAIN e.attributes |-> attributeLine(e.attributes[k])]
    \o << << "    }\n\n" >> >>

\* A symbol read from the record's own cardinality field when it has one.
relationSymbolStored(rel) ==
    IF "cardinality" \in DOMAIN rel
    THEN rel.cardinality
    ELSE CASE rel.type = "1-1" -> "||--||"
           [] rel.type = "1-N" -> "||--o{"
           [] rel.type = "N-1" -> "}o--||"
           [] rel.type = "N-N" -> "}o--o{"
           [] OTHER -> "--"

\* The switch on rel.type.
relationSymbol(rel) ==
    CASE rel.type = "1-1" -> "||--||"
      [] rel.type = "1-N" -> "||--o{"
      [] rel.type = "N-1" -> "}o--||"
      [] rel.type = "N-N" -> "}o--o{"
      [] OTHER -> "--"

\* `    ${rel.from} ${relationSymbol} ${rel.to} : "${rel.name}"\n`
relationshipLine(rel) ==
    << "    ", rel.from, " ", relationSymbol(rel), " ", rel.to, " : \"",
       rel.name, "\"\n" >>

RECURSIVE entitiesForEach(_)
entitiesForEach(ents) ==
    IF ents = << >>
    THEN << >>
    ELSE entityBlock(Head(ents)) \o entitiesForEach(Tail(ents))

renderERD(ents, relations, title) ==
    << << "erDiagram\n" >>, << "    %% ", title, "\n\n" >> >>
    \o entitiesForEach(ents)
    \o [k \in DOMAIN relations |-> relationshipLine(relations[k])]

\* The page: its template with the title (twice) and the diagram put in.
createViewer(diagram, title) ==
    << "<!DOCTYPE html>...<title>", title, "</title>...<h1>", title,
       "</h1>...<div class=\"mermaid\" id=\"erd-diagram\">", diagram,
       "</div>...</html>" >>

(***************************************************************************)
(* generator.js: isLikelyModelFile                                         *)
(***************************************************************************)
\* A unit whose $table or $fillable pattern matches contains the text
\* 'protected $table' or 'protected $fillable' that the includes() tests
\* look for (the declaration written with one space).
isLikelyModelFile(c, filename) ==
    IF c.extendsModel
    THEN TRUE
    ELSE IF c.usesTrait \/ c.tableMatch # << >> \/ c.fillableMatch # << >>
    THEN TRUE
    ELSE IF EndsWithSeq(filename, << "M", "o", "d", "e", "l" >>)
    THEN TRUE
    ELSE FALSE

(***************************************************************************)
(* Source units.  A unit records what the code's tests find in its text:   *)
(*   hasClass         content.includes('class')                            *)
(*   abstractClass    content.includes('abstract class')                   *)
(*   extendsModel     one of the three `extends` markers                   *)
(*   usesTrait        'use HasFactory' or 'use SoftDeletes'                *)
(*   tableMatch       match of the $table pattern, group 1                 *)
(*   fillableMatch    match of the $fillable pattern: the single-quoted    *)
(*                    strings of group 1, in order                         *)
(*   castsMatch       match of the $casts pattern: the 'attr' => 'type'    *)
(*                    pairs of group 1, in order                           *)
(*   timestampsOff    content.includes('public $timestamps = false')       *)
(*   primaryKey       content.includes('protected $primaryKey')            *)
(*   incrementingOff  the unit says `public $incrementing = false`, which  *)
(*                    no test of the code reads                            *)
(*   body             function headers and relationship calls, in order    *)
(***************************************************************************)
BaseUnit ==
    [hasClass |-> TRUE, abstractClass |-> FALSE, extendsModel |-> TRUE,
     usesTrait |-> FALSE, tableMatch |-> << >>, fillableMatch |-> << >>,
     castsMatch |-> << >>, timestampsOff |-> FALSE, primaryKey |-> FALSE,
     incrementingOff |-> FALSE, body |-> << >>]

AttrNames == {"id", "title", "created_at", "updated_at"}
CastValues == {"datetime", "integer", "encrypted"}

AttrUnits ==
    {[BaseUnit EXCEPT !.fillableMatch = f, !.castsMatch = c,
                      !.timestampsOff = t, !.primaryKey = p,
                      !.incrementingOff = n] :
        f \in Maybe(SeqsUpTo(AttrNames, MaxFillable)),
        c \in Maybe(SeqsUpTo(AttrNames \X CastValues, MaxCasts)),
        t \in BOOLEAN, p \in BOOLEAN, n \in BOOLEAN}

UserName == << "U", "s", "e", "r" >>

SampleNames ==
    { << "C", "a", "t", "e", "g", "o", "r", "y" >>,
      << "C", "o", "u", "n", "t", "r", "y" >>,
      << "S", "t", "a", "t", "u", "s" >>,
      << "B", "o", "x" >>,
      << "C", "o", "m", "p", "a", "n", "y" >>,
      << "C", "a", "r" >>,
      << "K", "e", "y" >>,
      UserName }

Letters == {"a", "c", "h", "s", "x", "y"}

ModelNames == SampleNames \cup (SeqsUpTo(Letters, MaxWord) \ {<< >>})

\* A file with a class, an abstract class, or no class at all.
ClassKinds == {<< TRUE, FALSE >>, << TRUE, TRUE >>, << FALSE, FALSE >>}

TableUnits ==
    {[BaseUnit EXCEPT !.tableMatch = t, !.hasClass = k[1], !.abstractClass = k[2]] :
        t \in Maybe({"tbl_people"}), k \in ClassKinds}

FunctionNames == {"roles", "owner"}

\* \App\Models\Role::class, 'App\Models\Post' and ''
NamespacedClassArg == << "\\", "App", "\\", "Models", "\\", "Role", "::class" >>
NamespacedQuotedArg == << "'", "App", "\\", "Models", "\\", "Post", "'" >>
EmptyQuotedArg == << "'", "'" >>
Args == {NamespacedClassArg, NamespacedQuotedArg, EmptyQuotedArg}

Tokens ==
    {[kind |-> "function", name |-> n, zeroArg |-> TRUE] : n \in FunctionNames}
    \cup {[kind |-> "function", name |-> "scopeRecent", zeroArg |-> FALSE]}
    \cup {[kind |-> "call", method |-> relationTypes[r].method, arg |-> a] :
            r \in DOMAIN relationTypes, a \in Args}

RelUnits == {[BaseUnit EXCEPT !.body = b] : b \in SeqsUpTo(Tokens, MaxTokens)}

\* One zero-argument accessor whose body makes one relationship call.
Accessors ==
    {<< [kind |-> "function", name |-> n, zeroArg |-> TRUE],
        [kind |-> "call", method |-> relationTypes[r].method, arg |-> a] >> :
        n \in FunctionNames, r \in DOMAIN relationTypes, a \in Args}

RECURSIVE AccessorBodies(_)
AccessorBodies(n) ==
    IF n = 0
    THEN {<< >>}
    ELSE {b \o a : b \in AccessorBodies(n - 1), a \in Accessors}

\* Units that declare several accessors one after the other.
AccessorUnits ==
    {[BaseUnit EXCEPT !.body = b] :
        b \in UNION {AccessorBodies(n) : n \in 2..MaxAccessors}}

ParseInputs ==
    ({UserName} \X AttrUnits) \cup (ModelNames \X TableUnits)
    \cup ({UserName} \X RelUnits) \cup ({UserName} \X AccessorUnits)

(***************************************************************************)
(* createViewer: the page's script.  The scale is counted in tenths, so    *)
(* that let zoom = 1 is 10 and const zoomStep = 0.1 is 1.                  *)
(***************************************************************************)
InitialZoom == 10
zoomStep == 1

\* The page as loaded: no button clicked, no style set on the diagram.
ViewIdle ==
    /\ zoom = InitialZoom
    /\ transform = << >>
    /\ transformOrigin = ""
    /\ clicked = "none"

(***************************************************************************)
(* The parser alone: parseModel, then parseRelationships, on one unit.     *)
(***************************************************************************)
RunIdle ==
    /\ impl = "none"
    /\ modelFiles = << >>
    /\ options = [includeRelations |-> TRUE, title |-> "ERD"]
    /\ schema = NoValue
    /\ i = 1
    /\ entities = << >>
    /\ relationships = << >>
    /\ errors = << >>
    /\ pc = "off"
    /\ thrown = ""
    /\ returned = NoValue
    /\ outputDir = [html |-> << >>, mmd |-> << >>]

InitParse ==
    /\ \E p \in ParseInputs : modelName = p[1] /\ content = p[2]
    /\ entity = Unparsed
    /\ rels = << >>
    /\ phase = "input"
    /\ RunIdle
    /\ ViewIdle

CallParseModel ==
    /\ phase = "input"
    /\ entity' = parseModel(modelName, content)
    /\ phase' = "parsed"
    /\ UNCHANGED << modelName, content, rels >>
    /\ UNCHANGED runVars
    /\ UNCHANGED viewVars

CallParseRelationships ==
    /\ phase = "parsed"
    /\ entity # Null
    /\ rels' = parseRelationships(modelName, content, << entity >>)
    /\ phase' = "related"
    /\ UNCHANGED << modelName, content, entity >>
    /\ UNCHANGED runVars
    /\ UNCHANGED viewVars

NextParse == CallParseModel \/ CallParseRelationships

SpecParse == InitParse /\ [][NextParse]_vars

(***************************************************************************)
(* The files a run of generate finds, and the schema literals given to     *)
(* generateFromSchema.                                                     *)
(*                                                                         *)
(* A file is [path, readError, content]: path is [dir, base] for           *)
(* `<modelsDir>/<dir>/<base>.php` (the glob returns each path once: the    *)
(* k-th file is in directory k), readError is the message fs.readFile      *)
(* rejects with ("" when it resolves with content).                        *)
(***************************************************************************)
UserModelName == UserName \o << "M", "o", "d", "e", "l" >>

\* $this->hasMany(...) inside posts(), for a unit with one relationship.
PostsAccessor ==
    << [kind |-> "function", name |-> "posts", zeroArg |-> TRUE],
       [kind |-> "call", method |-> << "hasMany" >>, arg |-> NamespacedQuotedArg] >>

\* A model with a relationship, a class with no model marker, an abstract
\* model, a file of functions, and a trait (no class, a model marker).
FileUnits ==
    { [BaseUnit EXCEPT !.body = PostsAccessor],
      [BaseUnit EXCEPT !.extendsModel = FALSE],
      [BaseUnit EXCEPT !.abstractClass = TRUE],
      [BaseUnit EXCEPT !.hasClass = FALSE, !.extendsModel = FALSE],
      [BaseUnit EXCEPT !.hasClass = FALSE, !.extendsModel = FALSE,
                       !.usesTrait = TRUE] }

FilesAt(k) ==
    {[path |-> [dir |-> k, base |-> b], readError |-> "", content |-> u] :
        b \in {UserName, UserModelName}, u \in FileUnits}
    \cup {[path |-> [dir |-> k, base |-> UserName], readError |-> "EACCES",
           content |-> BaseUnit]}

GlobResults ==
    UNION {{fs \in [1..n -> UNION {FilesAt(k) : k \in 1..n}] :
               \A k \in 1..n : fs[k] \in FilesAt(k)} : n \in 0..MaxFiles}

\* path.basename(file, '.php')
basename(path) == path.base

SchemaEntities ==
    { [name |-> "User", tableName |-> "users",
       attributes |-> << [name |-> "id", type |-> "bigint", primary |-> TRUE],
                         [name |-> "bio", nullable |-> TRUE] >>],
      [name |-> "Post", tableName |-> "posts", attributes |-> << >>] }

SchemaTypes == {"1-1", "1-N", "N-1", "N-N", "M-N"}

SchemaRelationships ==
    {[from |-> "User", to |-> "Post", name |-> "posts", type |-> t] :
        t \in SchemaTypes}
    \cup {[from |-> "User", to |-> "Post", name |-> "posts", type |-> t,
           cardinality |-> "||--o{"] : t \in SchemaTypes}

Schemas ==
    {[entities |-> e, relationships |-> r] :
        e \in Maybe(SeqsUpTo(SchemaEntities, MaxSchemaEntities)),
        r \in Maybe(SeqsUpTo(SchemaRelationships, MaxSchemaRels))}

\* The text a previous run left in a file of the output directory.  A file
\* of outputDir is << >> when it does not exist and << text >> when it does.
Stale == << "stale" >>

(***************************************************************************)
(* generator.js: generate (and its variant of src/unnamed/part_001),       *)
(* generateFromSchema                                                      *)
(***************************************************************************)
ParseIdle ==
    /\ modelName = << >>
    /\ content = BaseUnit
    /\ entity = Unparsed
    /\ rels = << >>
    /\ phase = "off"

Init ==
    /\ ParseIdle
    /\ ViewIdle
    /\ \/ /\ impl \in {"generator", "part_001"}
          /\ modelFiles \in GlobResults
          /\ options \in {[includeRelations |-> r, title |-> "ERD"] : r \in BOOLEAN}
          /\ schema = NoValue
       \/ /\ impl = "schema"
          /\ modelFiles = << >>
          /\ options = [includeRelations |-> TRUE, title |-> "ERD"]
          /\ schema \in Schemas
    /\ i = 1
    /\ entities = << >>
    /\ relationships = << >>
    /\ errors = << >>
    /\ pc = "start"
    /\ thrown = ""
    /\ returned = NoValue
    /\ \E previous \in Maybe({Stale}) :
           outputDir = [html |-> previous, mmd |-> previous]

\* const modelFiles = await glob(...); if (modelFiles.length === 0) throw
Glob ==
    /\ pc = "start"
    /\ impl \in {"generator", "part_001"}
    /\ IF Len(modelFiles) = 0
       THEN /\ thrown' = "No model files found"
            /\ pc' = "rejected"
       ELSE /\ pc' = "loop"
            /\ UNCHANGED thrown
    /\ UNCHANGED << impl, modelFiles, options, schema, i, entities,
                    relationships, errors, returned, outputDir >>
    /\ UNCHANGED parseVars
    /\ UNCHANGED viewVars

\* The unit's entity put at the front of the list instead of pushed.
ParseUnshift(file) ==
    LET e == parseModel(basename(file.path), file.content)
    IN  IF e # Null
        THEN /\ entities' = << e >> \o entities
             /\ relationships' =
                    IF options.includeRelations
                    THEN relationships
                         \o parseRelationships(basename(file.path), file.content,
                                               << e >> \o entities)
                    ELSE relationships
        ELSE UNCHANGED << entities, relationships >>

\* The entity and the relationships one unit adds to the accumulators.
Parse(file) ==
    LET e == parseModel(basename(file.path), file.content)
    IN  IF e # Null
        THEN /\ entities' = Append(entities, e)
             /\ relationships' =
                    IF options.includeRelations
                    THEN relationships
                         \o parseRelationships(basename(file.path), file.content,
                                               Append(entities, e))
                    ELSE relationships
        ELSE UNCHANGED << entities, relationships >>

\* One iteration of the for-of loop of generator.js: the try body, and the
\* catch that records what it threw.
LoopBody ==
    /\ pc = "loop"
    /\ impl = "generator"
    /\ i <= Len(modelFiles)
    /\ LET file == modelFiles[i]
       IN  IF file.readError # ""
           THEN /\ errors' = Append(errors, [file |-> file.path,
                                             error |-> file.readError])
                /\ UNCHANGED << entities, relationships >>
           ELSE IF ~isLikelyModelFile(file.content, basename(file.path))
           THEN UNCHANGED << entities, relationships, errors >>
           ELSE /\ Parse(file)
                /\ UNCHANGED errors
    /\ i' = i + 1
    /\ UNCHANGED << impl, modelFiles, options, schema, pc, thrown, returned,
                    outputDir >>
    /\ UNCHANGED parseVars
    /\ UNCHANGED viewVars

\* One iteration of the loop of src/unnamed/part_001: no try, no filter.
LoopBodyPart001 ==
    /\ pc = "loop"
    /\ impl = "part_001"
    /\ i <= Len(modelFiles)
    /\ LET file == modelFiles[i]
       IN  IF file.readError # ""
           THEN /\ thrown' = file.readError
                /\ pc' = "rejected"
                /\ UNCHANGED << entities, relationships, i >>
           ELSE /\ Parse(file)
                /\ i' = i + 1
                /\ UNCHANGED << pc, thrown >>
    /\ UNCHANGED << impl, modelFiles, options, schema, errors, returned,
                    outputDir >>
    /\ UNCHANGED parseVars
    /\ UNCHANGED viewVars

\* The check of entities.length placed after the two writes.
LoopEndWritten ==
    /\ pc = "loop"
    /\ impl = "generator"
    /\ i > Len(modelFiles)
    /\ IF Len(entities) = 0
       THEN /\ thrown' = "No valid models found to generate ERD"
            /\ pc' = "rejected"
            /\ outputDir' =
                   [html |-> << createViewer(renderERD(entities, relationships,
                                                       options.title),
                                             options.title) >>,
                    mmd |-> << renderERD(entities, relationships,
                                         options.title) >>]
       ELSE /\ pc' = "render"
            /\ UNCHANGED << thrown, outputDir >>
    /\ UNCHANGED << impl, modelFiles, options, schema, i, entities,
                    relationships, errors, returned >>
    /\ UNCHANGED parseVars
    /\ UNCHANGED viewVars

\* After the loop of generator.js: if (entities.length === 0) throw
LoopEnd ==
    /\ pc = "loop"
    /\ impl = "generator"
    /\ i > Len(modelFiles)
    /\ IF Len(entities) = 0
       THEN /\ thrown' = "No valid models found to generate ERD"
            /\ pc' = "rejected"
       ELSE /\ pc' = "render"
            /\ UNCHANGED thrown
    /\ UNCHANGED << impl, modelFiles, options, schema, i, entities,
                    relationships, errors, returned, outputDir >>
    /\ UNCHANGED parseVars
    /\ UNCHANGED viewVars

\* After the loop of src/unnamed/part_001: nothing is checked.
LoopEndPart001 ==
    /\ pc = "loop"
    /\ impl = "part_001"
    /\ i > Len(modelFiles)
    /\ pc' = "render"
    /\ UNCHANGED << impl, modelFiles, options, schema, i, entities,
                    relationships, errors, thrown, returned, outputDir >>
    /\ UNCHANGED parseVars
    /\ UNCHANGED viewVars

\* generateFromSchema without its check of entities.length.
SchemaStartNoThrow ==
    /\ pc = "start"
    /\ impl = "schema"
    /\ entities' = (IF schema.entities # << >> THEN schema.entities[1] ELSE << >>)
    /\ relationships' = (IF schema.relationships # << >>
                         THEN schema.relationships[1] ELSE << >>)
    /\ pc' = "render"
    /\ UNCHANGED << impl, modelFiles, options, schema, i, errors, thrown,
                    returned, outputDir >>
    /\ UNCHANGED parseVars
    /\ UNCHANGED viewVars

\* generateFromSchema up to its throw.
SchemaStart ==
    /\ pc = "start"
    /\ impl = "schema"
    /\ LET ents == IF schema.entities # << >> THEN schema.entities[1] ELSE << >>
           relations == IF schema.relationships # << >>
                        THEN schema.relationships[1] ELSE << >>
       IN  /\ entities' = ents
           /\ relationships' = relations
           /\ IF Len(ents) = 0
              THEN /\ thrown' = "No entities defined in schema"
                   /\ pc' = "rejected"
              ELSE /\ pc' = "render"
                   /\ UNCHANGED thrown
    /\ UNCHANGED << impl, modelFiles, options, schema, i, errors, returned,
                    outputDir >>
    /\ UNCHANGED parseVars
    /\ UNCHANGED viewVars

diagramOf == renderERD(entities, relationships, options.title)

\* renderERD, createViewer, ensureDir, then the write of index.html.
WriteHtml ==
    /\ pc = "render"
    /\ outputDir' = [outputDir EXCEPT
                        !.html = << createViewer(diagramOf, options.title) >>]
    /\ pc' = "html written"
    /\ UNCHANGED << impl, modelFiles, options, schema, i, entities,
                    relationships, errors, thrown, returned >>
    /\ UNCHANGED parseVars
    /\ UNCHANGED viewVars

\* The write of diagram.mmd.
WriteMmd ==
    /\ pc = "html written"
    /\ outputDir' = [outputDir EXCEPT !.mmd = << diagramOf >>]
    /\ pc' = "written"
    /\ UNCHANGED << impl, modelFiles, options, schema, i, entities,
                    relationships, errors, thrown, returned >>
    /\ UNCHANGED parseVars
    /\ UNCHANGED viewVars

names(ents) == [k \in DOMAIN ents |-> ents[k].name]

\* The summary each of the three functions returns.
Return ==
    /\ pc = "written"
    /\ returned' =
           CASE impl = "generator" ->
                    [entities |-> [count |-> Len(entities), names |-> names(entities)],
                     relationships |-> [count |-> Len(relationships)],
                     errors |-> errors]
             [] impl = "schema" ->
                    [entities |-> [count |-> Len(entities), names |-> names(entities)],
                     relationships |-> [count |-> Len(relationships)]]
             [] impl = "part_001" ->
                    [entities |-> Len(entities),
                     relationships |-> Len(relationships)]
    /\ pc' = "resolved"
    /\ UNCHANGED << impl, modelFiles, options, schema, i, entities,
                    relationships, errors, thrown, outputDir >>
    /\ UNCHANGED parseVars
    /\ UNCHANGED viewVars

Next ==
    \/ Glob
    \/ LoopBody
    \/ LoopBodyPart001
    \/ LoopEnd
    \/ LoopEndPart001
    \/ SchemaStart
    \/ WriteHtml
    \/ WriteMmd
    \/ Return

Spec == Init /\ [][Next]_vars

(***************************************************************************)
(* The viewer in the browser: clicks on zoom-in, zoom-out and reset-zoom.  *)
(***************************************************************************)
InitZoom ==
    /\ ParseIdle
    /\ RunIdle
    /\ ViewIdle

\* zoom-in: zoom += zoomStep, and the style is set.
ZoomIn ==
    /\ zoom < MaxZoom
    /\ clicked' = "zoom-in"
    /\ zoom' = zoom + zoomStep
    /\ transform' = << zoom' >>
    /\ transformOrigin' = "top left"
    /\ UNCHANGED parseVars
    /\ UNCHANGED runVars

\* zoom-out with the test zoom >= zoomStep.
ZoomOutAtStep ==
    /\ clicked' = "zoom-out"
    /\ IF zoom >= zoomStep
       THEN /\ zoom' = zoom - zoomStep
            /\ transform' = << zoom' >>
            /\ transformOrigin' = "top left"
       ELSE UNCHANGED << zoom, transform, transformOrigin >>
    /\ UNCHANGED parseVars
    /\ UNCHANGED runVars

\* zoom-out: if (zoom > zoomStep) { zoom -= zoomStep, and the style is set }
ZoomOut ==
    /\ clicked' = "zoom-out"
    /\ IF zoom > zoomStep
       THEN /\ zoom' = zoom - zoomStep
            /\ transform' = << zoom' >>
            /\ transformOrigin' = "top left"
       ELSE UNCHANGED << zoom, transform, transformOrigin >>
    /\ UNCHANGED parseVars
    /\ UNCHANGED runVars

\* reset-zoom: zoom = 1 and transform = 'scale(1)'
ResetZoom ==
    /\ clicked' = "reset-zoom"
    /\ zoom' = InitialZoom
    /\ transform' = << InitialZoom >>
    /\ UNCHANGED transformOrigin
    /\ UNCHANGED parseVars
    /\ UNCHANGED runVars

NextZoom == ZoomIn \/ ZoomOut \/ ResetZoom

SpecZoom == InitZoom /\ [][NextZoom]_vars

IsEntity(e) == "attributes" \in DOMAIN e

Parsed == phase \in {"parsed", "related"} /\ IsEntity(entity)

RowsNamed(attributes, n) == {k \in DOMAIN attributes : attributes[k].name = n}

\* C3: no two attributes of an entity returned by parseModel share a name.
C3_UniqueAttributeNames ==
    Parsed =>
        \A j, k \in DOMAIN entity.attributes :
            entity.attributes[j].name = entity.attributes[k].name => j = k

\* C4: a unit without the timestamps-off marker yields exactly one created_at
\* and exactly one updated_at attribute, both of type timestamp.
C4_ExactlyOneOfEachTimestamp ==
    (Parsed /\ ~content.timestampsOff) =>
        \A n \in {"created_at", "updated_at"} :
            /\ Cardinality(RowsNamed(entity.attributes, n)) = 1
            /\ \A k \in RowsNamed(entity.attributes, n) :
                   entity.attributes[k].type = "timestamp"

\* The closed type vocabulary of the cast-derived typing rule.
CastTypeTable(cast) ==
    CASE cast = "string" -> "string"
      [] cast \in {"integer", "int"} -> "integer"
      [] cast = "bigint" -> "bigint"
      [] cast \in {"boolean", "bool"} -> "boolean"
      [] cast \in {"float", "double", "decimal"} -> "decimal"
      [] cast = "date" -> "date"
      [] cast \in {"datetime", "timestamp"} -> "timestamp"
      [] cast \in {"json", "array", "object", "collection"} -> "json"
      [] cast = "text" -> "text"
      [] OTHER -> "string"

\* The cast value the cast map declares for attr: that of its last pair.
DeclaredCast(castPairs, attr) ==
    castPairs[Max({k \in DOMAIN castPairs : castPairs[k][1] = attr})][2]

\* C5: an attribute of the fillable list that the cast map also assigns ends
\* with the type the closed mapping table gives for its declared cast value.
C5_CastTypeIsMapped ==
    (Parsed /\ content.fillableMatch # << >> /\ content.castsMatch # << >>) =>
        \A f \in DOMAIN content.fillableMatch[1] :
            LET attr == content.fillableMatch[1][f]
                castPairs == content.castsMatch[1]
            IN  (\E k \in DOMAIN castPairs : castPairs[k][1] = attr) =>
                    \E k \in RowsNamed(entity.attributes, attr) :
                        entity.attributes[k].type =
                            CastTypeTable(DeclaredCast(castPairs, attr))

\* C6: a unit with neither a non-incrementing nor a custom primary key yields
\* an entity that starts with the synthesized id, and no entity has a primary
\* attribute other than that one.
C6_IdIsFirstAndOnlyPrimary ==
    Parsed =>
        /\ (~content.primaryKey /\ ~content.incrementingOff) =>
               entity.attributes[1]
                   = [name |-> "id", type |-> "bigint", primary |-> TRUE]
        /\ \A k \in DOMAIN entity.attributes :
               IsPrimary(entity.attributes[k]) =>
                   /\ k = 1
                   /\ entity.attributes[k].name = "id"

\* The accessor of the unit whose body is one header and one call.
OneAccessor(fn, method, arg) ==
    << [kind |-> "function", name |-> fn, zeroArg |-> TRUE],
       [kind |-> "call", method |-> method, arg |-> arg] >>

\* The last identifier of a namespaced argument: the lexeme before its
\* closing ::class marker or quote.
FinalSegment(arg) == arg[Len(arg) - 1]

\* C7: a unit with one zero-argument accessor that calls belongsToMany with
\* a namespaced first argument yields exactly one edge: N-N, from the unit,
\* to the argument's final namespace segment, named after the accessor.
C7_BelongsToManyOneEdge ==
    phase = "related" =>
        \A fn \in FunctionNames :
            \A arg \in {NamespacedClassArg, NamespacedQuotedArg} :
                content.body = OneAccessor(fn, << "belongsTo", "Many" >>, arg) =>
                    rels = << [from |-> Str(modelName), to |-> FinalSegment(arg),
                               name |-> fn, type |-> "N-N"] >>

\* parseRelationships has run on `roles() { $this->belongsToMany(
\* \App\Models\Role::class` and returned its one edge to Role.
C7_RolesParsed ==
    /\ phase = "related"
    /\ content.body
           = OneAccessor("roles", << "belongsTo", "Many" >>, NamespacedClassArg)
    /\ Len(rels) = 1
    /\ rels[1].to = "Role"
    /\ rels[1].type = "N-N"

\* The irregular plurals of the table-name rule.
IrregularPlurals ==
    { << << "c", "a", "t", "e", "g", "o", "r", "y" >>,
         << "c", "a", "t", "e", "g", "o", "r", "i", "e", "s" >> >>,
      << << "i", "n", "v", "e", "n", "t", "o", "r", "y" >>,
         << "i", "n", "v", "e", "n", "t", "o", "r", "i", "e", "s" >> >>,
      << << "c", "o", "u", "n", "t", "r", "y" >>,
         << "c", "o", "u", "n", "t", "r", "i", "e", "s" >> >>,
      << << "p", "e", "r", "s", "o", "n" >>, << "p", "e", "o", "p", "l", "e" >> >>,
      << << "c", "h", "i", "l", "d" >>,
         << "c", "h", "i", "l", "d", "r", "e", "n" >> >>,
      << << "s", "t", "a", "t", "u", "s" >>,
         << "s", "t", "a", "t", "u", "s", "e", "s" >> >>,
      << << "a", "n", "a", "l", "y", "s", "i", "s" >>,
         << "a", "n", "a", "l", "y", "s", "e", "s" >> >> }

Vowels == {"a", "e", "i", "o", "u"}

\* The stated plural: the irregular table, then consonant+y -> ies, then
\* s, x, z, ch, sh -> es, otherwise s.
StatedPlural(word) ==
    IF \E p \in IrregularPlurals : p[1] = word
    THEN (CHOOSE p \in IrregularPlurals : p[1] = word)[2]
    ELSE IF Len(word) >= 2 /\ word[Len(word)] = "y"
            /\ word[Len(word) - 1] \notin Vowels
    THEN SubSeq(word, 1, Len(word) - 1) \o << "i", "e", "s" >>
    ELSE IF \E suffix \in {<< "s" >>, << "x" >>, << "z" >>,
                           << "c", "h" >>, << "s", "h" >>} :
                EndsWithSeq(word, suffix)
    THEN word \o << "e", "s" >>
    ELSE Append(word, "s")

\* C8: the table name is the explicit literal when the unit has one, and
\* otherwise the stated plural of the lowercased model name.
C8_TableNameIsStatedPlural ==
    Parsed =>
        entity.tableName =
            IF content.tableMatch # << >>
            THEN content.tableMatch[1]
            ELSE Str(StatedPlural(toLowerCase(modelName)))

(***************************************************************************)
(* Runs of generate and generateFromSchema.                                *)
(***************************************************************************)
GenerateRun == impl \in {"generator", "part_001"}

Finished == pc \in {"resolved", "rejected"}

\* The loop has handled unit k, or handles no unit any more.
Handled(k) == pc # "start" /\ (k < i \/ pc # "loop")

ReadFails(file) == file.readError # ""

\* The entity the run's extraction returns for the unit, Null if none:
\* generator.js parses only what isLikelyModelFile lets through.
Extracted(file) ==
    IF ReadFails(file) THEN Null
    ELSE IF impl = "generator"
            /\ ~isLikelyModelFile(file.content, basename(file.path))
    THEN Null
    ELSE parseModel(basename(file.path), file.content)

Range(seq) == {seq[k] : k \in DOMAIN seq}

\* C1: in generate, a unit whose read throws is recorded in errors with its
\* path and message, every unit that yields an entity has it in the result
\* whether it comes before or after the failing unit, and the run never
\* rejects with a unit's own failure.
C1_UnitFailureRecordedBatchContinues ==
    GenerateRun =>
        /\ \A k \in DOMAIN modelFiles :
               (Handled(k) /\ ReadFails(modelFiles[k])) =>
                   [file |-> modelFiles[k].path,
                    error |-> modelFiles[k].readError] \in Range(errors)
        /\ Finished =>
               \A k \in DOMAIN modelFiles :
                   Extracted(modelFiles[k]) # Null =>
                       Extracted(modelFiles[k]) \in Range(entities)
        /\ pc = "rejected" =>
               \A k \in DOMAIN modelFiles : thrown # modelFiles[k].readError

\* No unit of the batch has a class declaration.
NoClassInBatch == \A k \in DOMAIN modelFiles : ~modelFiles[k].content.hasClass

\* C2: a batch (of at least one unit) without any class declaration ends
\* with zero entities and the no-valid-models error; a run is rejected only
\* with zero entities; a run with an entity resolves, with a non-empty
\* errors list when a unit failed.
C2_FailsExactlyOnZeroEntities ==
    (GenerateRun /\ Finished) =>
        /\ (NoClassInBatch /\ Len(modelFiles) > 0) =>
               /\ Len(entities) = 0
               /\ pc = "rejected"
               /\ thrown = "No valid models found to generate ERD"
        /\ pc = "rejected" => Len(entities) = 0
        /\ Len(entities) > 0 =>
               /\ pc = "resolved"
               /\ (\E k \in DOMAIN modelFiles : ReadFails(modelFiles[k])) =>
                      ("errors" \in DOMAIN returned /\ Len(returned.errors) > 0)

RECURSIVE EntityLines(_)
EntityLines(ents) ==
    IF ents = << >> THEN 0
    ELSE 2 + Len(Head(ents).attributes) + EntityLines(Tail(ents))

Rendered == pc \in {"written", "resolved"}

\* The lines of diagram.mmd after the title and the entity blocks.
RelationshipLines ==
    LET diagram == outputDir.mmd[1]
    IN  SubSeq(diagram, 3 + EntityLines(entities), Len(diagram))

KnownTypes == {"1-1", "1-N", "N-1", "N-N"}

\* C9: the diagram has one line per relationship, in input order, each
\* `<from> <symbol> <to> : "<name>"`; relationships of one type have one
\* symbol whatever cardinality they carry, and the four types have four
\* different symbols.
C9_OneLinePerRelationship ==
    Rendered =>
        /\ Len(RelationshipLines) = Len(relationships)
        /\ \A k \in DOMAIN relationships :
               /\ Len(RelationshipLines[k]) = 9
               /\ RelationshipLines[k] =
                      << "    ", relationships[k].from, " ",
                         RelationshipLines[k][4], " ", relationships[k].to,
                         " : \"", relationships[k].name, "\"\n" >>
        /\ \A j, k \in DOMAIN relationships :
               /\ relationships[j].type = relationships[k].type =>
                      RelationshipLines[j][4] = RelationshipLines[k][4]
               /\ ( /\ relationships[j].type \in KnownTypes
                    /\ relationships[k].type \in KnownTypes
                    /\ relationships[j].type # relationships[k].type ) =>
                      RelationshipLines[j][4] # RelationshipLines[k][4]

\* A diagram is written for two relationships of one type, of which only
\* the second carries a cardinality field, one that is not its type's symbol.
C9_StoredCardinalityRendered ==
    /\ Rendered
    /\ Len(relationships) = 2
    /\ relationships[1].type = "N-1"
    /\ relationships[2].type = "N-1"
    /\ "cardinality" \notin DOMAIN relationships[1]
    /\ "cardinality" \in DOMAIN relationships[2]
    /\ relationships[2].cardinality # RelationshipLines[2][4]
    /\ Len(RelationshipLines) = 2

SchemaRun == impl = "schema"

\* The entity collection of the schema literal is missing or empty.
NoSchemaEntities == schema.entities = << >> \/ schema.entities[1] = << >>

\* C10: generateFromSchema without entities rejects with the no-entities
\* error and neither renders nor writes; with entities it extracts nothing,
\* is never rejected, and returns the count and names of the given entities
\* and the number of the given relationships.
C10_SchemaLiteral ==
    SchemaRun =>
        /\ (NoSchemaEntities /\ pc # "start") =>
               /\ pc = "rejected"
               /\ thrown = "No entities defined in schema"
               /\ outputDir.html \in Maybe({Stale})
               /\ outputDir.mmd \in Maybe({Stale})
        /\ ~NoSchemaEntities =>
               /\ pc # "rejected"
               /\ errors = << >>
               /\ pc # "start" => entities = schema.entities[1]
               /\ pc = "resolved" =>
                      /\ returned.entities.count = Len(schema.entities[1])
                      /\ returned.entities.names
                             = [k \in DOMAIN schema.entities[1] |->
                                   schema.entities[1][k].name]
                      /\ returned.relationships.count
                             = IF schema.relationships = << >> THEN 0
                               ELSE Len(schema.relationships[1])

\* generateFromSchema has returned the summary of a literal of two entities
\* and one relationship.
C10_TwoEntitiesReturned ==
    /\ SchemaRun
    /\ pc = "resolved"
    /\ returned.entities.names = << "User", "Post" >>
    /\ returned.relationships.count = 1

(***************************************************************************)
(* Order of an entity's attributes.                                        *)
(***************************************************************************)
NamesOf(attributes) == [k \in DOMAIN attributes |-> attributes[k].name]

\* The names of a sequence without repetitions, in order of first occurrence.
RECURSIVE FirstOccurrences(_)
FirstOccurrences(seq) ==
    IF seq = << >> THEN << >>
    ELSE LET front == FirstOccurrences(SubSeq(seq, 1, Len(seq) - 1))
             last == seq[Len(seq)]
         IN  IF \E k \in DOMAIN front : front[k] = last
             THEN front
             ELSE Append(front, last)

\* The fillable list of the unit, in source order.
DeclaredFillable ==
    IF content.fillableMatch = << >> THEN << >> ELSE content.fillableMatch[1]

\* The names the cast map assigns that the fillable list does not hold, in
\* cast-map order.
DeclaredCastOnly ==
    IF content.castsMatch = << >> THEN << >>
    ELSE FirstOccurrences(
             SelectSeq([k \in DOMAIN content.castsMatch[1] |->
                           content.castsMatch[1][k][1]],
                       LAMBDA n : \A f \in DOMAIN DeclaredFillable :
                                      DeclaredFillable[f] # n))

ClassOfCall(method) ==
    CASE method = << "hasOne" >> -> "1-1"
      [] method = << "hasMany" >> -> "1-N"
      [] method = << "belongsTo" >> -> "N-1"
      [] method = << "belongsTo", "Many" >> -> "N-N"

\* The unit's text is two or more zero-argument accessors of different
\* names, each with one call whose first argument names a class.
SeveralAccessors ==
    /\ Len(content.body) >= 4
    /\ Len(content.body) % 2 = 0
    /\ \A j \in 1..(Len(content.body) \div 2) :
           /\ content.body[2 * j - 1].kind = "function"
           /\ content.body[2 * j - 1].zeroArg
           /\ content.body[2 * j].kind = "call"
           /\ content.body[2 * j].arg \in {NamespacedClassArg, NamespacedQuotedArg}
    /\ \A j, l \in 1..(Len(content.body) \div 2) :
           j # l => content.body[2 * j - 1].name # content.body[2 * l - 1].name

\* The record the j-th accessor of the unit stands for.
RecordOfAccessor(j) ==
    [from |-> Str(modelName),
     to |-> FinalSegment(content.body[2 * j].arg),
     name |-> content.body[2 * j - 1].name,
     type |-> ClassOfCall(content.body[2 * j].method)]

\* C12: for a unit of several zero-argument accessors that each make one
\* relationship call, parseRelationships returns exactly one record per
\* accessor, named after the accessor whose own body holds the call, to
\* the target of that call and of that call's cardinality class; no record
\* joins an accessor's name to the call of a later accessor.
C12_OneRecordPerAccessor ==
    (phase = "related" /\ SeveralAccessors) =>
        /\ Len(rels) = Len(content.body) \div 2
        /\ \A j \in 1..(Len(content.body) \div 2) :
               \E k \in DOMAIN rels : rels[k] = RecordOfAccessor(j)
        /\ \A k \in DOMAIN rels :
               \E j \in 1..(Len(content.body) \div 2) :
                   rels[k] = RecordOfAccessor(j)

(***************************************************************************)
(* The accumulators of generate.                                           *)
(***************************************************************************)
IsPrefix(s, t) == Len(s) <= Len(t) /\ SubSeq(t, 1, Len(s)) = s

\* The entities of the first k units of the batch, in input order.
RECURSIVE YieldedUpTo(_)
YieldedUpTo(k) ==
    IF k = 0
    THEN << >>
    ELSE IF Extracted(modelFiles[k]) = Null
    THEN YieldedUpTo(k - 1)
    ELSE Append(YieldedUpTo(k - 1), Extracted(modelFiles[k]))

\* C13: in a run of generate every step leaves the entity list and the
\* relationship list as they were or longer at the end; the entity list is
\* the entities of the units handled so far, in input order; every
\* relationship a step appends is from an entity that is in the list after
\* that step; and without includeRelations the relationship list is empty.
C13_AccumulatorsOnlyAppend ==
    [][GenerateRun =>
          /\ IsPrefix(entities, entities')
          /\ IsPrefix(relationships, relationships')
          /\ entities' = YieldedUpTo(i' - 1)
          /\ \A k \in (Len(relationships) + 1)..Len(relationships') :
                 \E e \in DOMAIN entities' :
                     entities'[e].name = relationships'[k].from
          /\ ~options.includeRelations => relationships' = << >>]_vars

\* generate has handled three units: two gave an entity and relationships,
\* one between them gave none.
C13_TwoEntitiesOneSkipped ==
    /\ GenerateRun
    /\ options.includeRelations
    /\ pc = "loop"
    /\ i = 4
    /\ Extracted(modelFiles[2]) = Null
    /\ Len(entities) = 2
    /\ Len(relationships) = 2

(***************************************************************************)
(* The files of the output directory.                                      *)
(***************************************************************************)
\* The output directory as a previous run left it: no file, or both files
\* with their old text.
AsPreviousRunLeftIt ==
    \E previous \in Maybe({Stale}) :
        outputDir = [html |-> previous, mmd |-> previous]

\* The text inside the viewer's mermaid element.
EmbeddedDiagram(html) == html[6]

\* C14: a run of generate or generateFromSchema that ends in an error (no
\* model files, no entity, an empty schema literal, or any other rejection)
\* has written neither index.html nor diagram.mmd, which are as the previous
\* run left them; a run that resolves has written both, and the viewer of
\* index.html embeds exactly the text of diagram.mmd.
C14_FilesWrittenOnlyOnSuccess ==
    /\ pc \in {"start", "loop", "rejected"} => AsPreviousRunLeftIt
    /\ pc = "resolved" =>
           /\ ~AsPreviousRunLeftIt
           /\ Len(outputDir.html) = 1
           /\ Len(outputDir.mmd) = 1
           /\ outputDir.mmd[1] = renderERD(entities, relationships, options.title)
           /\ EmbeddedDiagram(outputDir.html[1]) = outputDir.mmd[1]

\* generate of generator.js has rejected for want of an entity and the
\* previous run's files are still in the output directory.
C14_RejectedOverPreviousFiles ==
    /\ impl = "generator"
    /\ pc = "rejected"
    /\ thrown = "No valid models found to generate ERD"
    /\ Len(modelFiles) > 0
    /\ outputDir = [html |-> << Stale >>, mmd |-> << Stale >>]

(***************************************************************************)
(* The viewer's scale.                                                     *)
(***************************************************************************)
\* C15: from scale 1 with step 0.1 (counted in tenths), after any clicks on
\* zoom-in, zoom-out and reset-zoom the scale is greater than zero, in the
\* script's variable and in the style of the diagram; a zoom-out click that
\* would bring the scale to zero or below leaves it as it is; and after a
\* reset-zoom click the scale is 1.
C15_ScaleStaysPositive ==
    /\ [](/\ zoom > 0
          /\ transform # << >> => transform[1] > 0
          /\ clicked = "reset-zoom" =>
                 (zoom = 10 /\ transform = << 10 >>))
    /\ [][(clicked' = "zoom-out" /\ zoom - 1 <= 0) =>
              (zoom' = zoom /\ transform' = transform)]_vars

\* Nine zoom-out clicks after the page was loaded or reset: the scale is
\* one step, the least the script lets it be.
C15_ZoomedOutToOneStep ==
    /\ clicked = "zoom-out"
    /\ zoom = 1
    /\ transform = << 1 >>
    /\ transformOrigin = "top left"

=============================================================================
